---- MODULE Spec2Model ----
(***************************************************************************)
(* Model of the two Streamlit dashboards ai_energy_dashboard_final.py      *)
(* ("final") and ai_energy_dashboard_scaled_final.py ("scaled"): the       *)
(* cached loader, the sidebar widgets, and the script body that Streamlit  *)
(* re-runs from top to bottom after every widget change.                   *)
(*                                                                         *)
(* Numbers.  A pandas float64 is modelled as an exact fraction             *)
(* [n |-> numerator, d |-> denominator] in lowest terms; d = 0 encodes the *)
(* non-finite values: n = 0 is NaN, n = 1 is +inf.  Rounding of IEEE       *)
(* doubles is not modelled.                                                *)
(*                                                                         *)
(* Time.  created_at is a count of half hours since a Monday 00:00, NaT is *)
(* the missing timestamp (an empty cell of the CSV).                       *)
(***************************************************************************)
EXTENDS Integers, Sequences, FiniteSets, TLC

VARIABLES variant, df, selected_models, selected_devices,
          selected_energy_column, selected_unit, color_by,
          df_filtered, total_val, hourly_model, device_energy, cross_data,
          forecast_df, pivot, fig_tokens, fig_complexity, pc

vars == <<variant, df, selected_models, selected_devices,
          selected_energy_column, selected_unit, color_by,
          df_filtered, total_val, hourly_model, device_energy, cross_data,
          forecast_df, pivot, fig_tokens, fig_complexity, pc>>

widgets == <<selected_models, selected_devices, selected_energy_column,
             selected_unit, color_by>>

(***************************************************************************)
(* float64 arithmetic on exact fractions                                   *)
(***************************************************************************)
RECURSIVE GCD(_, _)
GCD(a, b) == IF b = 0 THEN a ELSE GCD(b, a % b)

Frac(n, d) == LET g == GCD(n, d) IN [n |-> n \div g, d |-> d \div g]

FromInt(i) == [n |-> i, d |-> 1]

NaN == [n |-> 0, d |-> 0]

Inf == [n |-> 1, d |-> 0]

isna(x) == x = NaN

IsFinite(x) == x.d > 0

\* x + y of two finite values
FAdd(x, y) ==
    LET g == GCD(x.d, y.d)
        l == (x.d \div g) * y.d
    IN  Frac(x.n * (l \div x.d) + y.n * (l \div y.d), l)

\* x * y; NaN propagates, inf * 0 is NaN
FMul(x, y) ==
    IF isna(x) \/ isna(y) THEN NaN
    ELSE IF ~IsFinite(x) \/ ~IsFinite(y)
         THEN (IF x.n = 0 \/ y.n = 0 THEN NaN ELSE Inf)
    ELSE LET g1 == GCD(x.n, y.d)
             g2 == GCD(y.n, x.d)
         IN  [n |-> (x.n \div g1) * (y.n \div g2),
              d |-> (x.d \div g2) * (y.d \div g1)]

\* x / y; a finite x over zero is inf, 0 / 0 is NaN (numpy true division)
FDiv(x, y) ==
    IF isna(x) \/ isna(y) THEN NaN
    ELSE IF ~IsFinite(y) THEN (IF IsFinite(x) THEN FromInt(0) ELSE NaN)
    ELSE IF y.n = 0 THEN (IF x.n = 0 THEN NaN ELSE Inf)
    ELSE FMul(x, [n |-> y.d, d |-> y.n])

\* x < y for two non-NaN values, by continued-fraction comparison
RECURSIVE FracLess(_, _, _, _)
FracLess(a, b, c, d) ==
    LET qa == a \div b
        qc == c \div d
        ra == a % b
        rc == c % d
    IN  IF qa # qc THEN qa < qc
        ELSE IF ra = 0 THEN rc > 0
        ELSE IF rc = 0 THEN FALSE
        ELSE FracLess(d, rc, b, ra)

FLess(x, y) ==
    IF ~IsFinite(x) THEN FALSE
    ELSE IF ~IsFinite(y) THEN TRUE
    ELSE FracLess(x.n, x.d, y.n, y.d)

(***************************************************************************)
(* The CSV file and the bounds of the model                                *)
(***************************************************************************)
\* number of rows of the CSV that are drawn freely from FreeRows
MaxRows == 1

\* resolution of created_at: distinct timestamps per hour
TicksPerHour == 2

NaT == -1

NullString == "<NA>"

At(day, hr, tick) == (day * 24 + hr) * TicksPerHour + tick

Row(ts, m, dv, dur, raw, tok) ==
    [created_at |-> ts, model_name |-> m, device |-> dv, total_duration |-> dur,
     energy_consumption_llm_total |-> raw, response_token_length |-> tok]

\* one inference per weekday: model A on three distinct hours, model B on four
WeekRows ==
    << Row(At(0, 0, 0), "A", "gpu0", 1000000000, <<"2">>, 10),
       Row(At(1, 13, 0), "A", "cpu", 2000000000, <<>>, 20),
       Row(At(2, 0, 1), "A", "gpu0", 2000000000, <<"n", "a">>, 30),
       Row(At(3, 0, 0), "B", "cpu", 1000000000, <<"1">>, 10),
       Row(At(4, 13, 0), "B", "gpu0", 1000000000, <<>>, 20),
       Row(At(5, 13, 1), "B", "cpu", 2000000000, <<"1", "0">>, 30),
       Row(At(6, 23, TicksPerHour - 1), "B", "gpu0", 1000000000, <<"0">>, 40) >>

FreeRows ==
    { Row(ts, m, dv, 2000000000, <<"3">>, 5) :
        ts \in {NaT, At(0, 0, TicksPerHour - 1)},
        m \in {"A", "B"},
        dv \in {"gpu0", NullString} }

SeqsUpTo(S, k) == UNION { [1..n -> S] : n \in 0..k }

\* the CSV files considered: an optional full week followed by free rows
CsvFiles == { pre \o rest : pre \in {<<>>, WeekRows}, rest \in SeqsUpTo(FreeRows, MaxRows) }

(***************************************************************************)
(* load_data                                                               *)
(***************************************************************************)
ScaleFactor == 50493

NanosPerSecond == 1000000000

JoulesPerKwh == 3600000

EmissionFactor == Frac(475, 1000)

BulbJoulesPerHour == 50 * 3600

DayNames == <<"Monday", "Tuesday", "Wednesday", "Thursday", "Friday", "Saturday", "Sunday">>

\* Series.dt.floor("H"): the start of the hour, NaT stays NaT
floor_H(ts) == IF ts = NaT THEN NaT ELSE (ts \div TicksPerHour) * TicksPerHour

\* Series.dt.day_name(): NaT gives a missing value
day_name(ts) == IF ts = NaT THEN NullString ELSE DayNames[((ts \div (24 * TicksPerHour)) % 7) + 1]

\* Series.dt.hour: NaT gives a missing value
dt_hour(ts) == IF ts = NaT THEN NaT ELSE (ts \div TicksPerHour) % 24

DigitChars == <<"0", "1", "2", "3", "4", "5", "6", "7", "8", "9">>

IsDigit(c) == \E i \in 1..10 : DigitChars[i] = c

DigitVal(c) == (CHOOSE i \in 1..10 : DigitChars[i] = c) - 1

RECURSIVE ParseDigits(_)
ParseDigits(s) ==
    IF s = <<>> THEN 0
    ELSE ParseDigits(SubSeq(s, 1, Len(s) - 1)) * 10 + DigitVal(s[Len(s)])

\* pd.to_numeric(..., errors="coerce") on one cell: an empty cell and a cell
\* that is no number become NaN (cells here are unsigned decimal integers)
to_numeric(raw) ==
    IF raw = <<>> \/ \E i \in 1..Len(raw) : ~IsDigit(raw[i]) THEN NaN
    ELSE FromInt(ParseDigits(raw))

\* Series.fillna(other), cell by cell
fillna(x, other) == IF isna(x) THEN other ELSE x

measured_energy_joules(r) == FMul(to_numeric(r.energy_consumption_llm_total), FromInt(ScaleFactor))

estimated_energy_joules(r) == FDiv(FromInt(r.total_duration), FromInt(NanosPerSecond))

\* the fallback the wrong way round: the estimate wherever it exists
final_energy_joules_estimate_first(r) ==
    fillna(estimated_energy_joules(r), measured_energy_joules(r))

final_energy_joules(r) == fillna(measured_energy_joules(r), estimated_energy_joules(r))

energy_kwh(joules) == FDiv(joules, FromInt(JoulesPerKwh))

co2_kg(kwh) == FMul(kwh, EmissionFactor)

lightbulb_hours(joules) == FDiv(joules, FromInt(BulbJoulesPerHour))

TimeColumns(r) == [hour |-> floor_H(r.created_at), weekday |-> day_name(r.created_at)]

LoadRowScaled(r) ==
    LET j == final_energy_joules(r)
    IN  [measured_energy_joules |-> measured_energy_joules(r),
         estimated_energy_joules |-> estimated_energy_joules(r),
         final_energy_joules |-> j,
         energy_kwh |-> energy_kwh(j),
         co2_kg |-> co2_kg(energy_kwh(j)),
         lightbulb_hours |-> lightbulb_hours(j)] @@ TimeColumns(r) @@ r

LoadRowFinal(r) ==
    LET j == estimated_energy_joules(r)
    IN  [energy_joules |-> j,
         energy_kwh |-> energy_kwh(j),
         co2_kg |-> co2_kg(energy_kwh(j)),
         lightbulb_hours |-> lightbulb_hours(j)] @@ TimeColumns(r) @@ r

load_data(csv, v) ==
    [i \in DOMAIN csv |-> IF v = "scaled" THEN LoadRowScaled(csv[i]) ELSE LoadRowFinal(csv[i])]

(***************************************************************************)
(* pandas helpers used by the script body                                  *)
(***************************************************************************)
\* Series.sum(): missing values are skipped, the sum of nothing is 0
RECURSIVE SumSeq(_)
SumSeq(vals) ==
    IF vals = <<>> THEN FromInt(0)
    ELSE LET rest == SumSeq(Tail(vals))
         IN  IF isna(Head(vals)) THEN rest ELSE FAdd(Head(vals), rest)

Column(rows, col) == [i \in DOMAIN rows |-> rows[i][col]]

Range(seq) == { seq[i] : i \in DOMAIN seq }

\* the elements of S as a sequence in increasing rank
RECURSIVE SortByRank(_, _)
SortByRank(S, rank) ==
    IF S = {} THEN <<>>
    ELSE LET m == CHOOSE x \in S : \A y \in S : rank[x] <= rank[y]
         IN  <<m>> \o SortByRank(S \ {m}, rank)

\* lexicographic order of the strings that occur as group keys
NameOrder == <<"A", "B", "Friday", "Monday", "Saturday", "Sunday", "Thursday",
               "Tuesday", "Wednesday", "cpu", "gpu0">>

NameRank(s) == CHOOSE i \in DOMAIN NameOrder : NameOrder[i] = s

SortedNames(S) == SortByRank(S, [s \in S |-> NameRank(s)])

SortedInts(S) == SortByRank(S, [i \in S |-> i])

\* DataFrame.sort_values(col, ascending=False): larger values first, missing
\* values last, equal values in their previous order
ComesAfter(e, x) ==
    IF isna(x) THEN FALSE
    ELSE IF isna(e) THEN TRUE
    ELSE FLess(e, x)

RECURSIVE InsertDesc(_, _, _)
InsertDesc(x, sorted, col) ==
    IF sorted = <<>> THEN <<x>>
    ELSE IF ComesAfter(Head(sorted)[col], x[col]) THEN <<x>> \o sorted
    ELSE <<Head(sorted)>> \o InsertDesc(x, Tail(sorted), col)

RECURSIVE sort_values_desc(_, _)
sort_values_desc(rows, col) ==
    IF rows = <<>> THEN <<>>
    ELSE InsertDesc(rows[Len(rows)], sort_values_desc(SubSeq(rows, 1, Len(rows) - 1), col), col)

\* Series.isin(values)
isin(v, values) == v \in values

(***************************************************************************)
(* Sidebar options                                                         *)
(***************************************************************************)
\* df["model_name"].unique()
model_options(d) == { d[i].model_name : i \in DOMAIN d }

\* df["device"].dropna().unique()
device_options(d) == { d[i].device : i \in DOMAIN d } \ {NullString}

\* values of energy_source_options (scaled dashboard)
EnergyColumns == {"final_energy_joules", "measured_energy_joules", "estimated_energy_joules"}

\* values of unit_options: unit tokens (scaled), column names (final)
UnitTokens == {"raw", "kwh", "co2", "bulb"}

UnitColumns == {"energy_joules", "energy_kwh", "co2_kg", "lightbulb_hours"}

UnitChoices(v) == IF v = "scaled" THEN UnitTokens ELSE UnitColumns

\* the first entry of each radio is its default
DefaultEnergyColumn(v) == IF v = "scaled" THEN "final_energy_joules" ELSE "none"

DefaultUnit(v) == IF v = "scaled" THEN "raw" ELSE "energy_joules"

ColorChoices == {"device", "model_name"}

(***************************************************************************)
(* Script body: filter and unit conversion                                 *)
(***************************************************************************)
\* a filter that lets rows without a device through
Filter_keeping_null_device(d, models, devices) ==
    SelectSeq(d, LAMBDA r : isin(r.model_name, models)
                            /\ (isin(r.device, devices) \/ r.device = NullString))

\* df[(df["model_name"].isin(...)) & (df["device"].isin(...))]
Filter(d, models, devices) ==
    SelectSeq(d, LAMBDA r : isin(r.model_name, models) /\ isin(r.device, devices))

\* a resolver with no catch-all branch: a token it does not know gives no value
display_energy_strict(base, unit) ==
    IF unit = "raw" THEN base
    ELSE IF unit = "kwh" THEN FDiv(base, FromInt(JoulesPerKwh))
    ELSE IF unit = "co2" THEN FMul(FDiv(base, FromInt(JoulesPerKwh)), EmissionFactor)
    ELSE IF unit = "bulb" THEN FDiv(base, FromInt(BulbJoulesPerHour))
    ELSE NaN

\* the if/elif/else on selected_unit_type, for one cell of base_energy
display_energy(base, unit) ==
    IF unit = "kwh" THEN FDiv(base, FromInt(JoulesPerKwh))
    ELSE IF unit = "co2" THEN FMul(FDiv(base, FromInt(JoulesPerKwh)), EmissionFactor)
    ELSE IF unit = "bulb" THEN FDiv(base, FromInt(BulbJoulesPerHour))
    ELSE base

\* df_filtered["base_energy"] = ...; df_filtered["display_energy"] = ...
WithDisplay(rows, column, unit) ==
    [i \in DOMAIN rows |->
        [base_energy |-> rows[i][column],
         display_energy |-> display_energy(rows[i][column], unit)] @@ rows[i]]

\* df_filtered["hour_of_day"] = df_filtered["created_at"].dt.hour
WithHourOfDay(rows) ==
    [i \in DOMAIN rows |-> [hour_of_day |-> dt_hour(rows[i].created_at)] @@ rows[i]]

\* the column every view aggregates
ValueColumn(v, unit) == IF v = "scaled" THEN "display_energy" ELSE unit

(***************************************************************************)
(* Script body: the views                                                  *)
(***************************************************************************)
\* df_filtered[col].sum()
Total(rows, col) == SumSeq(Column(rows, col))

\* columns that hold hours (integers); every other group key is a string
TimeKeys == {"hour", "hour_of_day"}

\* the missing value of a key column
Missing(col) == IF col \in TimeKeys THEN NaT ELSE NullString

\* the key of a row under groupby(by)
GroupKey(r, by) == [i \in DOMAIN by |-> r[by[i]]]

HasMissingKey(r, by) == \E i \in DOMAIN by : r[by[i]] = Missing(by[i])

\* the rows of one group of a groupby
Group(rows, by, k) == SelectSeq(rows, LAMBDA r : GroupKey(r, by) = k)

\* position of a key in the sorted order of its groupby
ColRank(col, v) == IF col \in TimeKeys THEN v ELSE NameRank(v)

RECURSIVE KeyRank(_, _)
KeyRank(k, by) ==
    IF Len(by) = 1 THEN ColRank(by[1], k[1])
    ELSE KeyRank(SubSeq(k, 1, Len(k) - 1), SubSeq(by, 1, Len(by) - 1)) * (Len(NameOrder) + 1)
         + ColRank(by[Len(by)], k[Len(k)])

\* the group keys of groupby(by): rows with a missing key are dropped, the
\* groups come out in key order
GroupKeys(rows, by) ==
    LET present == { j \in DOMAIN rows : ~HasMissingKey(rows[j], by) }
        keys == { GroupKey(rows[j], by) : j \in present }
    IN  SortByRank(keys, [k \in keys |-> KeyRank(k, by)])

\* groupby(by)[col].sum().reset_index()
GroupBySum(rows, by, col) ==
    LET ks == GroupKeys(rows, by)
    IN  [i \in DOMAIN ks |-> [key |-> ks[i], value |-> Total(Group(rows, by, ks[i]), col)]]

\* groupby(["hour", "model_name"])[col].sum().reset_index()
HourlyModel(rows, col) == GroupBySum(rows, <<"hour", "model_name">>, col)

\* groupby("device")[col].sum().reset_index().sort_values(by=col, ascending=False)
DeviceEnergy(rows, col) == sort_values_desc(GroupBySum(rows, <<"device">>, col), "value")

\* groupby(["model_name", "device"])[col].sum().reset_index()
CrossData(rows, col) == GroupBySum(rows, <<"model_name", "device">>, col)

\* count() in place of nunique(): every dated row counts, not every distinct hour
count_hour(rows) == Len(SelectSeq(rows, LAMBDA r : r.hour # NaT))

\* groupby("model_name")["hour"].nunique() for one group: NaT is not counted
nunique_hour(rows) == Cardinality({ rows[i].hour : i \in DOMAIN rows } \ {NaT})

\* avg_hourly for one model: sum of the value column over distinct hours
avg_hourly(rows, col) == FDiv(Total(rows, col), FromInt(nunique_hour(rows)))

\* avg_hourly.values * 24 * 7
forecast_value(avg) == FMul(FMul(avg, FromInt(24)), FromInt(7))

\* forecast_df, sorted by forecast_value, descending
ForecastDf(rows, col) ==
    LET ks == GroupKeys(rows, <<"model_name">>)
    IN  sort_values_desc([i \in DOMAIN ks |->
            [model_name |-> ks[i][1],
             forecast_value |->
                 forecast_value(avg_hourly(Group(rows, <<"model_name">>, ks[i]), col))]],
            "forecast_value")

\* pivot_table(values=col, index="hour_of_day", columns="weekday",
\* aggfunc="sum").fillna(0): rows with a missing key are dropped, the index
\* and the columns are the keys that occur, in sorted order
PivotTable(rows, col) ==
    LET by == <<"hour_of_day", "weekday">>
        dated == SelectSeq(rows, LAMBDA r : ~HasMissingKey(r, by))
        keys == { GroupKey(dated[i], by) : i \in DOMAIN dated }
        hours == { k[1] : k \in keys }
        days == { k[2] : k \in keys }
    IN  [index |-> SortedInts(hours),
         columns |-> SortedNames(days),
         cell |-> [k \in hours \X days |->
                     fillna(IF k \in keys THEN Total(Group(dated, by, k), col) ELSE NaN,
                            FromInt(0))]]

\* the list literal of pivot[[...]]
WeekdayOrder == <<"Monday", "Tuesday", "Wednesday", "Thursday", "Friday", "Saturday", "Sunday">>

\* pivot[[...]] raises KeyError when a listed label is no column of pivot
RaisesKeyError(p) == ~(Range(WeekdayOrder) \subseteq Range(p.columns))

\* pivot[[...]] when it does not raise: the listed columns, in the listed order
SelectColumns(p) == [p EXCEPT !.columns = WeekdayOrder]

\* the table handed to px.scatter: x, y and color of every filtered row
Scatter(rows, xcol, col, colorcol) ==
    [i \in DOMAIN rows |-> [x |-> rows[i][xcol], y |-> rows[i][col], color |-> rows[i][colorcol]]]

\* the first available complexity column is the selectbox default
selected_complexity == "response_token_length"

EmptyPivot == [index |-> <<>>, columns |-> <<>>, cell |-> [k \in {} |-> NaN]]

\* the filtered frame taking the place of the loaded one
df_after_script_in_place(d, filtered) == filtered

\* df_filtered = df[mask] is a new frame: the columns assigned to df_filtered
\* afterwards are not assigned to df
df_after_script(d, filtered) == d

(***************************************************************************)
(* One run of the script with the given widget values                      *)
(***************************************************************************)
\* The script runs top to bottom; a KeyError at pivot[[...]] ends the run, so
\* the figures after it are not produced.  (Each intermediate frame is bound
\* once with \E over a singleton.)
RunScript(models, devices, column, unit, color) ==
    LET v == variant
        col == ValueColumn(v, unit)
    IN  /\ selected_models' = models
        /\ selected_devices' = devices
        /\ selected_energy_column' = column
        /\ selected_unit' = unit
        /\ \E f1 \in { IF v = "scaled" THEN WithDisplay(Filter(df, models, devices), column, unit)
                       ELSE Filter(df, models, devices) } :
             /\ total_val' = Total(f1, col)
             /\ hourly_model' = HourlyModel(f1, col)
             /\ device_energy' = IF v = "final" THEN DeviceEnergy(f1, col) ELSE <<>>
             /\ cross_data' = CrossData(f1, col)
             /\ forecast_df' = ForecastDf(f1, col)
             /\ df_filtered' = WithHourOfDay(f1)
        /\ \E p \in { PivotTable(df_filtered', col) } :
             /\ pc' = IF RaisesKeyError(p) THEN "KeyError" ELSE "done"
             /\ pivot' = IF pc' = "KeyError" THEN p ELSE SelectColumns(p)
        /\ fig_tokens' = IF pc' = "KeyError" THEN <<>>
                         ELSE Scatter(df_filtered', "response_token_length", col, "model_name")
        /\ color_by' = IF pc' = "KeyError" THEN "device" ELSE color
        /\ fig_complexity' = IF pc' = "KeyError" THEN <<>>
                             ELSE Scatter(df_filtered', selected_complexity, col,
                                          IF v = "scaled" THEN color ELSE "device")
        /\ df' = df_after_script(df, df_filtered')
        /\ UNCHANGED variant

(***************************************************************************)
(* Initial state and user interactions                                     *)
(***************************************************************************)
Init ==
    /\ variant \in {"final", "scaled"}
    /\ \E csv \in CsvFiles : df = load_data(csv, variant)
    /\ selected_models = model_options(df)
    /\ selected_devices = device_options(df)
    /\ selected_energy_column = DefaultEnergyColumn(variant)
    /\ selected_unit = DefaultUnit(variant)
    /\ color_by = "device"
    /\ df_filtered = <<>>
    /\ total_val = FromInt(0)
    /\ hourly_model = <<>>
    /\ device_energy = <<>>
    /\ cross_data = <<>>
    /\ forecast_df = <<>>
    /\ pivot = EmptyPivot
    /\ fig_tokens = <<>>
    /\ fig_complexity = <<>>
    /\ pc = "loaded"

\* the first run of the script, with every widget at its default
FirstRun ==
    /\ pc = "loaded"
    /\ RunScript(selected_models, selected_devices, selected_energy_column,
                 selected_unit, color_by)

SelectModels ==
    /\ pc # "loaded"
    /\ \E models \in SUBSET model_options(df) :
         /\ models # selected_models
         /\ RunScript(models, selected_devices, selected_energy_column, selected_unit, color_by)

SelectDevices ==
    /\ pc # "loaded"
    /\ \E devices \in SUBSET device_options(df) :
         /\ devices # selected_devices
         /\ RunScript(selected_models, devices, selected_energy_column, selected_unit, color_by)

SelectEnergySource ==
    /\ pc # "loaded"
    /\ variant = "scaled"
    /\ \E column \in EnergyColumns \ {selected_energy_column} :
         RunScript(selected_models, selected_devices, column, selected_unit, color_by)

SelectUnit ==
    /\ pc # "loaded"
    /\ \E unit \in UnitChoices(variant) \ {selected_unit} :
         RunScript(selected_models, selected_devices, selected_energy_column, unit, color_by)

\* the "Color By" radio exists only when the run reached it
SelectColorBy ==
    /\ pc = "done"
    /\ variant = "scaled"
    /\ \E color \in ColorChoices \ {color_by} :
         RunScript(selected_models, selected_devices, selected_energy_column, selected_unit, color)

Next ==
    \/ FirstRun
    \/ SelectModels
    \/ SelectDevices
    \/ SelectEnergySource
    \/ SelectUnit
    \/ SelectColorBy

Spec == Init /\ [][Next]_vars

(***************************************************************************)
(* The unit conversion as a function of an arbitrary unit token: the block *)
(* is applied to tokens that unit_options does not contain as well.        *)
(***************************************************************************)
OtherTokens == {"wh", "RAW"}

InitResolver == Init /\ variant = "scaled"

ResolveUnit ==
    \E column \in EnergyColumns, unit \in UnitTokens \cup OtherTokens :
        RunScript(selected_models, selected_devices, column, unit, color_by)

NextResolver == ResolveUnit

SpecResolver == InitResolver /\ [][NextResolver]_vars

(***************************************************************************)
(* Properties                                                              *)
(***************************************************************************)
Ran == pc # "loaded"

\* the column the views of the last run aggregated
CurCol == ValueColumn(variant, selected_unit)

\* the rows with value v in column c
RowsWith(rows, c, v) == SelectSeq(rows, LAMBDA r : r[c] = v)

IsNumericCell(raw) == raw # <<>> /\ \A i \in 1..Len(raw) : raw[i] \in Range(DigitChars)

\* C1: in the scaled loader every row has final_energy_joules equal to
\* measured_energy_joules (the raw cell times 50493) when the raw cell parses
\* as a number, and equal to estimated_energy_joules (total_duration / 1e9)
\* otherwise.
C1_FinalIsMeasuredElseEstimated ==
    variant = "scaled" =>
        \A i \in DOMAIN df :
            LET r == df[i]
                raw == r.energy_consumption_llm_total
            IN  /\ r.estimated_energy_joules.d > 0
                /\ r.estimated_energy_joules.n * (NanosPerSecond \div r.estimated_energy_joules.d)
                      = r.total_duration
                /\ IsNumericCell(raw) =>
                      /\ r.measured_energy_joules = [n |-> ParseDigits(raw) * ScaleFactor, d |-> 1]
                      /\ r.final_energy_joules = r.measured_energy_joules
                /\ ~IsNumericCell(raw) =>
                      /\ r.measured_energy_joules = NaN
                      /\ r.final_energy_joules = r.estimated_energy_joules

C1_Witness ==
    /\ variant = "scaled"
    /\ \E i, j, k \in DOMAIN df :
         /\ IsNumericCell(df[i].energy_consumption_llm_total)
         /\ df[i].final_energy_joules # df[i].estimated_energy_joules
         /\ df[j].energy_consumption_llm_total = <<>>
         /\ df[k].energy_consumption_llm_total = <<"n", "a">>

\* C2: on a loaded table with rows, a run with no model selected or no device
\* selected completes without raising and every view is a zero-row result.
C2_EmptySelectionGivesEmptyViews ==
    (Ran /\ df # <<>> /\ (selected_models = {} \/ selected_devices = {})) =>
        /\ pc = "done"
        /\ df_filtered = <<>>
        /\ hourly_model = <<>>
        /\ device_energy = <<>>
        /\ cross_data = <<>>
        /\ forecast_df = <<>>
        /\ pivot.index = <<>>
        /\ fig_tokens = <<>>
        /\ fig_complexity = <<>>

\* C3: after every run on a filtered table with a dated row the pivot has exactly the 7 columns Monday..Sunday in
\* that order and exactly the 24 rows 0..23, each cell being the sum of the
\* value column for its (hour of day, weekday), 0 where no row has it.
C3_PivotIs24By7 ==
    (Ran /\ \E i \in DOMAIN df_filtered : df_filtered[i].created_at # NaT) =>
        /\ pc = "done"
        /\ pivot.columns = WeekdayOrder
        /\ pivot.index = [h \in 1..24 |-> h - 1]
        /\ \A h \in 0..23, w \in Range(WeekdayOrder) :
             pivot.cell[<<h, w>>] =
                 SumSeq(Column(SelectSeq(df_filtered, LAMBDA r : r.hour_of_day = h /\ r.weekday = w), CurCol))

\* C4: in the final dashboard the device totals add up to the KPI total: no
\* filtered row is lost or counted twice by the group-by-device aggregation.
C4_DeviceTotalsAddUp ==
    (Ran /\ variant = "final") =>
        /\ total_val = SumSeq(Column(df_filtered, CurCol))
        /\ SumSeq(Column(device_energy, "value")) = total_val

C4_Witness ==
    /\ Ran /\ variant = "final"
    /\ Len(device_energy) = 2
    /\ Len(df_filtered) > 3
    /\ device_energy[1].value # device_energy[2].value
    /\ selected_unit = "co2_kg"

\* C5: for every model with at least one filtered row that has a valid hour,
\* the forecast is the sum of the value column over the model's filtered rows,
\* divided by the number of distinct hours of those rows, times 168.
C5_ForecastIsAverageHourlyTimes168 ==
    Ran =>
        \A m \in { df_filtered[i].model_name : i \in DOMAIN df_filtered } :
            LET rows == RowsWith(df_filtered, "model_name", m)
                k == Cardinality({ rows[i].hour : i \in DOMAIN rows } \ {NaT})
            IN  k > 0 =>
                  \E j \in DOMAIN forecast_df :
                      /\ forecast_df[j].model_name = m
                      /\ FMul(forecast_df[j].forecast_value, FromInt(k))
                            = FMul(SumSeq(Column(rows, CurCol)), FromInt(168))

C5_Witness ==
    /\ Ran
    /\ \E j \in DOMAIN forecast_df :
         LET rows == RowsWith(df_filtered, "model_name", forecast_df[j].model_name)
         IN  /\ Cardinality({ rows[i].hour : i \in DOMAIN rows } \ {NaT}) = 3
             /\ Len(rows) = 4
             /\ \A i \in DOMAIN rows : rows[i].hour # NaT
             /\ IsFinite(forecast_df[j].forecast_value)
             /\ forecast_df[j].forecast_value.n > 0

C7_LoadedTableUnchanged == [][df' = df]_vars

C7_Witness ==
    /\ Ran
    /\ Len(df) > Len(df_filtered)
    /\ \E i \in DOMAIN df_filtered :
         /\ {"base_energy", "display_energy", "hour_of_day"} \subseteq DOMAIN df_filtered[i]
         /\ df_filtered[i].display_energy # df_filtered[i].final_energy_joules
    /\ \A i \in DOMAIN df :
         {"base_energy", "display_energy", "hour_of_day"} \cap DOMAIN df[i] = {}

\* C8: with every model and every known device selected the filter keeps
\* every row of the loaded table, rows with a null device included.
C8_DefaultSelectionKeepsEveryRow ==
    (Ran /\ selected_models = model_options(df) /\ selected_devices = device_options(df)) =>
        /\ Len(df_filtered) = Len(df)
        /\ \A i \in DOMAIN df : df_filtered[i].created_at = df[i].created_at

\* C9: in a run that completes, a filtered row with a null created_at is in no
\* cell of the hourly series or of the heatmap, its energy is not in the
\* numerator of its model's forecast, and it is a row of the scatter tables.
C9_NullDatedRowOnlyInRowLevelViews ==
    pc = "done" =>
        \A i \in DOMAIN df_filtered :
            df_filtered[i].created_at = NaT =>
                LET m == df_filtered[i].model_name
                    dated == SelectSeq(df_filtered, LAMBDA r : r.created_at # NaT)
                    ofm == RowsWith(dated, "model_name", m)
                    k == Cardinality({ ofm[j].hour : j \in DOMAIN ofm })
                IN  /\ SumSeq(Column(hourly_model, "value")) = SumSeq(Column(dated, CurCol))
                    /\ \A h \in Range(pivot.index), w \in Range(pivot.columns) :
                          pivot.cell[<<h, w>>] =
                              SumSeq(Column(SelectSeq(dated, LAMBDA r : r.hour_of_day = h /\ r.weekday = w), CurCol))
                    /\ fig_tokens[i].x = df_filtered[i].response_token_length
                    /\ fig_complexity[i].y = df_filtered[i][CurCol]
                    /\ \A j \in DOMAIN forecast_df :
                          forecast_df[j].model_name = m =>
                              FMul(forecast_df[j].forecast_value, FromInt(k))
                                  = FMul(SumSeq(Column(ofm, CurCol)), FromInt(168))

\* C10: a model whose filtered rows have no distinct hour gets no forecast
\* row; the other models still get theirs.
C10_NoForecastRowWithoutHours ==
    Ran =>
        \A m \in { df_filtered[i].model_name : i \in DOMAIN df_filtered } :
            LET rows == RowsWith(df_filtered, "model_name", m)
                k == Cardinality({ rows[i].hour : i \in DOMAIN rows } \ {NaT})
            IN  (\E j \in DOMAIN forecast_df : forecast_df[j].model_name = m) <=> k > 0

====
